---- MODULE Spec2Model ----
(***************************************************************************)
(* Healthcare MCP server: the agent (query orchestrator), the vector-store *)
(* adapter and the completion handler, as a state machine.                 *)
(*                                                                         *)
(* State: the documents of the one collection the adapter addresses, and   *)
(* the outcome of the operation that ran last.  Each action is one public  *)
(* operation, run from its call to its return.                             *)
(*                                                                         *)
(* Python values: strings are strings, lists are sequences, dicts are      *)
(* records / functions whose DOMAIN is the key set, None is the value      *)
(* None below.  An operation outcome is [exc, val]: exc = None when the    *)
(* call returned val, exc = str(e) when it raised e.                       *)
(***************************************************************************)
EXTENDS Integers, Sequences, FiniteSets, TLC

None == "<None>"
EmptyDict == [k \in {} |-> ""]

\* Python truthiness of an optional string: None and "" are falsy.
Truthy(s) == s # None /\ s # ""

Returned(v) == [exc |-> None, val |-> v]
Raised(msg) == [exc |-> msg, val |-> None]

Min(a, b) == IF a <= b THEN a ELSE b

(***************************************************************************)
(* Bounds of the model.                                                    *)
(***************************************************************************)
MaxK == 2          \* retrieval limits tried: 1 and MaxK
MaxBatch == 1      \* documents per insert call: 0..MaxBatch
MaxDocs == 2       \* documents the collection may hold

(***************************************************************************)
(* Input alphabets.                                                        *)
(***************************************************************************)
Queries == {"fever", "aspirin"}
Ks == {1, MaxK}
Categories == {None, "", "medications"}
UserContexts == {None, "", "fever"}

\* The message with which a failing store call raises.
StoreErrors == {"store failure"}

(***************************************************************************)
(* config.py                                                               *)
(***************************************************************************)
MEDICAL_DISCLAIMER == "This AI assistant provides general health information only and should not replace professional medical advice, diagnosis, or treatment."

\* The block appended to a generated text.  The source writes a warning-sign
\* emoji where this string has "(!)".
DisclaimerBlock == "\n\n(!) **Medical Disclaimer**: " \o MEDICAL_DISCLAIMER

(***************************************************************************)
(* The similarity engine behind the adapter (an external library).  A      *)
(* collection is the sequence of its entries in insertion order, each      *)
(* [id, document, metadata].  Every call may fail (fails = TRUE) and then  *)
(* raises.  A `where` of EmptyDict stands for "no filter".                 *)
(***************************************************************************)

\* The engine's dissimilarity score of a stored text for a query.
Distance(query, document) == IF query = document THEN 0 ELSE 1

Matches(entry, where) ==
    \A k \in DOMAIN where :
        k \in DOMAIN entry.metadata /\ entry.metadata[k] = where[k]

\* The entry of S that comes first: least distance, then earliest inserted.
Nearest(coll, query, S) ==
    CHOOSE i \in S : \A j \in S :
        \/ Distance(query, coll[i].document) < Distance(query, coll[j].document)
        \/ /\ Distance(query, coll[i].document) = Distance(query, coll[j].document)
           /\ i <= j

RECURSIVE Ranked(_, _, _)
Ranked(coll, query, S) ==
    IF S = {} THEN <<>>
    ELSE LET i == Nearest(coll, query, S)
         IN  <<i>> \o Ranked(coll, query, S \ {i})

\* a query that returns every eligible entry, whatever n_results is
CollectionQuery_unbounded(coll, query, n_results, where, fails) ==
    IF fails THEN Raised("store failure")
    ELSE LET eligible == {i \in 1..Len(coll) : Matches(coll[i], where)}
             top == Ranked(coll, query, eligible)
         IN  Returned([ids |-> <<[n \in 1..Len(top) |-> coll[top[n]].id]>>,
                       documents |-> <<[n \in 1..Len(top) |-> coll[top[n]].document]>>,
                       metadatas |-> <<[n \in 1..Len(top) |-> coll[top[n]].metadata]>>,
                       distances |-> <<[n \in 1..Len(top) |-> Distance(query, coll[top[n]].document)]>>])

\* a query that returns one entry fewer than it should
CollectionQuery_one_short(coll, query, n_results, where, fails) ==
    IF fails THEN Raised("store failure")
    ELSE LET eligible == {i \in 1..Len(coll) : Matches(coll[i], where)}
             order == Ranked(coll, query, eligible)
             top == SubSeq(order, 1, Min(n_results, Len(order)) - 1)
         IN  Returned([ids |-> <<[n \in 1..Len(top) |-> coll[top[n]].id]>>,
                       documents |-> <<[n \in 1..Len(top) |-> coll[top[n]].document]>>,
                       metadatas |-> <<[n \in 1..Len(top) |-> coll[top[n]].metadata]>>,
                       distances |-> <<[n \in 1..Len(top) |-> Distance(query, coll[top[n]].document)]>>])

\* collection.query(query_texts=[query], n_results, where)
CollectionQuery(coll, query, n_results, where, fails) ==
    IF fails THEN Raised("store failure")
    ELSE LET eligible == {i \in 1..Len(coll) : Matches(coll[i], where)}
             order == Ranked(coll, query, eligible)
             top == SubSeq(order, 1, Min(n_results, Len(order)))
         IN  Returned([ids |-> <<[n \in 1..Len(top) |-> coll[top[n]].id]>>,
                       documents |-> <<[n \in 1..Len(top) |-> coll[top[n]].document]>>,
                       metadatas |-> <<[n \in 1..Len(top) |-> coll[top[n]].metadata]>>,
                       distances |-> <<[n \in 1..Len(top) |-> Distance(query, coll[top[n]].document)]>>])

RECURSIVE Select(_, _)
Select(coll, where) ==
    IF coll = <<>> THEN <<>>
    ELSE (IF Matches(Head(coll), where) THEN <<Head(coll)>> ELSE <<>>)
         \o Select(Tail(coll), where)

\* collection.get(where)
CollectionGet(coll, where, fails) ==
    IF fails THEN Raised("store failure")
    ELSE LET hit == Select(coll, where)
         IN  Returned([ids |-> [n \in 1..Len(hit) |-> hit[n].id],
                       documents |-> [n \in 1..Len(hit) |-> hit[n].document],
                       metadatas |-> [n \in 1..Len(hit) |-> hit[n].metadata]])

StoredIds(coll) == {coll[i].id : i \in 1..Len(coll)}

\* collection.add(documents, metadatas, ids).  An id that is not a string or
\* that occurs twice in the batch is rejected.  For an id the collection
\* already holds the engine either rejects the batch (onExisting = "raise")
\* or leaves the stored entry and drops the new one (onExisting = "skip"),
\* depending on its version.
CollectionAdd(coll, documents, metadatas, ids, fails, onExisting) ==
    IF fails THEN Raised("store failure")
    ELSE IF \E i \in 1..Len(ids) : ids[i] = None
    THEN Raised("Expected ID to be a str, got None")
    ELSE IF \E i, j \in 1..Len(ids) : i # j /\ ids[i] = ids[j]
    THEN Raised("Expected IDs to be unique")
    ELSE IF onExisting = "raise" /\ \E i \in 1..Len(ids) : ids[i] \in StoredIds(coll)
    THEN Raised("ID already exists")
    ELSE LET fresh == SelectSeq([i \in 1..Len(ids) |->
                                    [id |-> ids[i], document |-> documents[i],
                                     metadata |-> metadatas[i]]],
                                LAMBDA e : e.id \notin StoredIds(coll))
         IN  Returned(coll \o fresh)

\* collection.delete(where={})
CollectionDeleteAll(coll, fails) ==
    IF fails THEN Raised("store failure") ELSE Returned(<<>>)

\* collection.delete(ids=[...]): the entries with these ids are removed; an
\* id the collection does not hold is passed over without an exception.
CollectionDelete(coll, ids, fails) ==
    IF fails THEN Raised("store failure")
    ELSE Returned(SelectSeq(coll, LAMBDA e : \A i \in 1..Len(ids) : e.id # ids[i]))

(***************************************************************************)
(* vector_db.py: VectorDB                                                  *)
(***************************************************************************)

\* f"healthcare_doc_{i}" for the 0-based position i in the batch
GeneratedId(i) == "healthcare_doc_" \o ToString(i)

\* add_documents(documents): the new collection, or the exception.
\* calls = 1 when the engine was called.
add_documents(coll, documents, fails, onExisting) ==
    IF documents = <<>> THEN [exc |-> None, val |-> coll, calls |-> 0]
    ELSE LET texts == [i \in 1..Len(documents) |-> documents[i].text]
             metadatas == [i \in 1..Len(documents) |->
                             IF "metadata" \in DOMAIN documents[i]
                             THEN documents[i].metadata ELSE EmptyDict]
             ids == [i \in 1..Len(documents) |->
                       IF "id" \in DOMAIN documents[i]
                       THEN documents[i].id ELSE GeneratedId(i - 1)]
             r == CollectionAdd(coll, texts, metadatas, ids, fails, onExisting)
         IN  [exc |-> r.exc, val |-> r.val, calls |-> 1]

\* mutant: the category never reaches the engine
search_ignores_category(coll, query, n_results, category, fails) ==
    LET where_filter == EmptyDict
        r == CollectionQuery(coll, query, n_results, where_filter, fails)
    IN  IF r.exc # None THEN Raised(r.exc)
        ELSE LET results == r.val
             IN  IF results.documents # <<>> /\ results.documents[1] # <<>>
                 THEN Returned([i \in 1..Len(results.documents[1]) |->
                         [text |-> results.documents[1][i],
                          metadata |-> results.metadatas[1][i],
                          id |-> results.ids[1][i],
                          distance |-> results.distances[1][i]]])
                 ELSE Returned(<<>>)

\* search(query, n_results, category)
search(coll, query, n_results, category, fails) ==
    LET where_filter == IF Truthy(category) THEN [category |-> category] ELSE EmptyDict
        r == CollectionQuery(coll, query, n_results, where_filter, fails)
    IN  IF r.exc # None THEN Raised(r.exc)
        ELSE LET results == r.val
             IN  IF results.documents # <<>> /\ results.documents[1] # <<>>
                 THEN Returned([i \in 1..Len(results.documents[1]) |->
                         [text |-> results.documents[1][i],
                          metadata |-> results.metadatas[1][i],
                          id |-> results.ids[1][i],
                          distance |-> results.distances[1][i]]])
                 ELSE Returned(<<>>)

(***************************************************************************)
(* llm_handler.py: LLMHandler.  `backend` is what the completion service   *)
(* does with the one request: [ok |-> TRUE, text |-> content] or           *)
(* [ok |-> FALSE, text |-> str(cause)] (network failure, non-2xx status,   *)
(* malformed body).  Each generator returns [text, calls]: the string the  *)
(* method returns and the requests it sent.                                *)
(***************************************************************************)
Backends == {[ok |-> TRUE, text |-> "Rest and drink fluids."],
             [ok |-> FALSE, text |-> "503 Server Error"]}

system_prompt ==
    "You are a knowledgeable healthcare assistant with expertise in medical information, patient education, and health guidance. You provide accurate, evidence-based health information while always emphasizing the importance of consulting healthcare professionals for specific medical advice."
    \o "\n\nKey responsibilities:\n- Provide general health information and education\n- Explain medical concepts in simple terms\n- Suggest lifestyle and wellness tips\n- Help users understand their health better\n- Always recommend consulting healthcare professionals for specific medical concerns"
    \o "\n\nIMPORTANT: You are not a substitute for professional medical advice, diagnosis, or treatment. Always include appropriate medical disclaimers when discussing health topics."

\* sep.join(strs)
RECURSIVE Join(_, _)
Join(strs, sep) ==
    IF strs = <<>> THEN ""
    ELSE IF Len(strs) = 1 THEN strs[1]
    ELSE strs[1] \o sep \o Join(Tail(strs), sep)

Texts(context_documents) ==
    [i \in 1..Len(context_documents) |-> context_documents[i].text]

CompleteCall(messages, r) == [fn |-> "complete", ok |-> r.exc = None, messages |-> messages]

_make_openrouter_request(messages, backend) ==
    IF backend.ok THEN Returned(backend.text)
    ELSE Raised("OpenRouter API error: " \o backend.text)

\* mutant: the disclaimer is appended to the error text as well
generate_response_disclaims_errors(user_message, context_documents, include_disclaimer, backend) ==
    LET system_msg == IF context_documents # <<>>
                      THEN system_prompt \o "\n\nRelevant medical information:\n"
                           \o Join(Texts(context_documents), "\n\n")
                      ELSE system_prompt
        messages == <<[role |-> "system", content |-> system_msg],
                      [role |-> "user", content |-> user_message]>>
        r == _make_openrouter_request(messages, backend)
    IN  [text |-> IF r.exc = None
                  THEN (IF include_disclaimer /\ MEDICAL_DISCLAIMER # ""
                        THEN r.val \o DisclaimerBlock ELSE r.val)
                  ELSE "Error generating response: " \o r.exc \o DisclaimerBlock,
         calls |-> <<CompleteCall(messages, r)>>]

generate_response(user_message, context_documents, include_disclaimer, backend) ==
    LET system_msg == IF context_documents # <<>>
                      THEN system_prompt \o "\n\nRelevant medical information:\n"
                           \o Join(Texts(context_documents), "\n\n")
                      ELSE system_prompt
        messages == <<[role |-> "system", content |-> system_msg],
                      [role |-> "user", content |-> user_message]>>
        r == _make_openrouter_request(messages, backend)
    IN  [text |-> IF r.exc = None
                  THEN (IF include_disclaimer /\ MEDICAL_DISCLAIMER # ""
                        THEN r.val \o DisclaimerBlock ELSE r.val)
                  ELSE "Error generating response: " \o r.exc,
         calls |-> <<CompleteCall(messages, r)>>]

\* template.format(**variables): a template is a sequence of literal parts
\* and of replacement fields; a field that variables lacks raises KeyError.
RECURSIVE Format(_, _)
Format(template, variables) ==
    IF template = <<>> THEN Returned("")
    ELSE LET part == Head(template)
             rest == Format(Tail(template), variables)
         IN  IF part.field /\ part.s \notin DOMAIN variables
             THEN Raised("'" \o part.s \o "'")
             ELSE IF rest.exc # None THEN rest
             ELSE Returned((IF part.field THEN variables[part.s] ELSE part.s) \o rest.val)

Lit(s) == [field |-> FALSE, s |-> s]
Field(s) == [field |-> TRUE, s |-> s]

\* generate_with_template sending a template it could not render as it stands
generate_with_template_sends_unrendered(template, variables, context_documents, backend) ==
    LET given == IF context_documents # <<>>
                 THEN [k \in DOMAIN variables \cup {"context"} |->
                          IF k = "context" THEN Join(Texts(context_documents), "\n\n")
                          ELSE variables[k]]
                 ELSE variables
        formatted_prompt == Format(template, given)
        prompt == IF formatted_prompt.exc # None THEN "{" \o formatted_prompt.exc \o "}"
                  ELSE formatted_prompt.val
        messages == <<[role |-> "system", content |-> system_prompt],
                      [role |-> "user", content |-> prompt]>>
        r == _make_openrouter_request(messages, backend)
    IN  [exc |-> None,
         text |-> IF r.exc = None THEN r.val ELSE "Error generating response: " \o r.exc,
         calls |-> <<CompleteCall(messages, r)>>]

\* generate_with_template sending the request a second time after a failure
generate_with_template_retries(template, variables, context_documents, backend) ==
    LET given == IF context_documents # <<>>
                 THEN [k \in DOMAIN variables \cup {"context"} |->
                          IF k = "context" THEN Join(Texts(context_documents), "\n\n")
                          ELSE variables[k]]
                 ELSE variables
        formatted_prompt == Format(template, given)
    IN  IF formatted_prompt.exc # None
        THEN [exc |-> formatted_prompt.exc, text |-> None, calls |-> <<>>]
        ELSE LET messages == <<[role |-> "system", content |-> system_prompt],
                               [role |-> "user", content |-> formatted_prompt.val]>>
                 r == _make_openrouter_request(messages, backend)
             IN  [exc |-> None,
                  text |-> IF r.exc = None THEN r.val
                           ELSE "Error generating response: " \o r.exc,
                  calls |-> IF r.exc = None THEN <<CompleteCall(messages, r)>>
                            ELSE <<CompleteCall(messages, r), CompleteCall(messages, r)>>]

\* generate_with_template(template, variables, context_documents): a
\* non-empty context_documents sets variables["context"] to the joined texts
\* before the template is formatted.  [exc, text, calls]: exc is the render
\* failure, which is raised before the try block and the request.
generate_with_template(template, variables, context_documents, backend) ==
    LET given == IF context_documents # <<>>
                 THEN [k \in DOMAIN variables \cup {"context"} |->
                          IF k = "context" THEN Join(Texts(context_documents), "\n\n")
                          ELSE variables[k]]
                 ELSE variables
        formatted_prompt == Format(template, given)
    IN  IF formatted_prompt.exc # None
        THEN [exc |-> formatted_prompt.exc, text |-> None, calls |-> <<>>]
        ELSE LET messages == <<[role |-> "system", content |-> system_prompt],
                               [role |-> "user", content |-> formatted_prompt.val]>>
                 r == _make_openrouter_request(messages, backend)
             IN  [exc |-> None,
                  text |-> IF r.exc = None THEN r.val
                           ELSE "Error generating response: " \o r.exc,
                  calls |-> <<CompleteCall(messages, r)>>]

assessment_template ==
    <<Lit("Based on the following symptoms: "), Field("symptoms"),
      Lit("\n\nPlease provide a general health assessment including:\n1. Possible conditions these symptoms might indicate\n2. General lifestyle recommendations\n3. When to seek medical attention\n4. Preventive measures\n\n"),
      Field("context"),
      Lit("\n\nRemember: This is for educational purposes only and should not replace professional medical evaluation.")>>

generate_health_assessment(symptoms, context_documents, backend) ==
    LET variables == [symptoms |-> Join(symptoms, ", "),
                      context |-> IF context_documents # <<>>
                                  THEN "Relevant medical information:\n"
                                       \o Join(Texts(context_documents), "\n\n")
                                  ELSE ""]
    IN  generate_with_template(assessment_template, variables, <<>>, backend)

medication_template ==
    <<Lit("Provide information about the medication: "), Field("medication_name"),
      Lit("\n\nInclude:\n1. General purpose and uses\n2. Common side effects\n3. Important precautions\n4. General dosage information\n5. Drug interactions to be aware of\n\n"),
      Field("context"),
      Lit("\n\nNote: Always consult with healthcare providers for specific medication guidance.")>>

generate_medication_info(medication_name, context_documents, backend) ==
    LET variables == [medication_name |-> medication_name,
                      context |-> IF context_documents # <<>>
                                  THEN "Relevant medication information:\n"
                                       \o Join(Texts(context_documents), "\n\n")
                                  ELSE ""]
    IN  generate_with_template(medication_template, variables, <<>>, backend)

\* a role filter that lets every message through
IsChatRole_any(msg) == msg.role = msg.role

IsChatRole(msg) == msg.role = "user" \/ msg.role = "assistant"

\* The loop of LLMHandler.chat_conversation over messages: each message whose
\* role is "user" or "assistant" is appended as a new {role, content}, so any
\* other key of it is left behind; msg["role"] and msg["content"] raise
\* KeyError on a message without the key.
RECURSIVE AppendChatMessages(_, _)
AppendChatMessages(openrouter_messages, messages) ==
    IF messages = <<>> THEN Returned(openrouter_messages)
    ELSE LET msg == Head(messages)
         IN  IF "role" \notin DOMAIN msg THEN Raised("'role'")
             ELSE IF ~IsChatRole(msg)
                  THEN AppendChatMessages(openrouter_messages, Tail(messages))
             ELSE IF "content" \notin DOMAIN msg THEN Raised("'content'")
             ELSE AppendChatMessages(
                      Append(openrouter_messages,
                             [role |-> msg.role, content |-> msg.content]),
                      Tail(messages))

\* LLMHandler.chat_conversation(messages, context_documents): the message
\* list is built outside the try, so its KeyError reaches the caller (exc)
\* before any request; a failed request is returned as text.
llm_chat_conversation(messages, context_documents, backend) ==
    LET system_content == IF context_documents # <<>>
                          THEN system_prompt \o "\n\nRelevant medical information:\n"
                               \o Join(Texts(context_documents), "\n\n")
                          ELSE system_prompt
        built == AppendChatMessages(<<[role |-> "system", content |-> system_content]>>,
                                    messages)
    IN  IF built.exc # None
        THEN [exc |-> built.exc, text |-> None, calls |-> <<>>]
        ELSE LET openrouter_messages == built.val
                 r == _make_openrouter_request(openrouter_messages, backend)
             IN  [exc |-> None,
                  text |-> IF r.exc = None
                           THEN (IF MEDICAL_DISCLAIMER # ""
                                 THEN r.val \o DisclaimerBlock ELSE r.val)
                           ELSE "Error in conversation: " \o r.exc,
                  calls |-> <<CompleteCall(openrouter_messages, r)>>]

(***************************************************************************)
(* vector_db.py: the listing operations                                    *)
(***************************************************************************)
Listing(results) ==
    IF results.documents # <<>>
    THEN [i \in 1..Len(results.documents) |->
            [text |-> results.documents[i],
             metadata |-> IF results.metadatas # <<>> THEN results.metadatas[i] ELSE EmptyDict,
             id |-> IF results.ids # <<>> THEN results.ids[i] ELSE "doc_" \o ToString(i - 1)]]
    ELSE <<>>

get_all_documents(coll, fails) ==
    LET r == CollectionGet(coll, EmptyDict, fails)
    IN  IF r.exc # None THEN Raised(r.exc) ELSE Returned(Listing(r.val))

get_documents_by_category(coll, category, fails) ==
    LET r == CollectionGet(coll, [category |-> category], fails)
    IN  IF r.exc # None THEN Raised(r.exc) ELSE Returned(Listing(r.val))

\* list(categories): the set of category values; the order of the list the
\* source builds from it is unspecified.
get_categories(coll, fails) ==
    LET r == CollectionGet(coll, EmptyDict, fails)
    IN  IF r.exc # None THEN Raised(r.exc)
        ELSE Returned({r.val.metadatas[i].category :
                         i \in {j \in 1..Len(r.val.metadatas) :
                                  /\ r.val.metadatas[j] # EmptyDict
                                  /\ "category" \in DOMAIN r.val.metadatas[j]}})

clear_collection(coll, fails) == CollectionDeleteAll(coll, fails)

\* delete_document(doc_id): True unless the engine raised; the exception is
\* printed and turned into False.  coll is the collection it leaves.
delete_document(coll, doc_id, fails) ==
    LET r == CollectionDelete(coll, <<doc_id>>, fails)
    IN  IF r.exc # None
        THEN [val |-> FALSE, coll |-> coll, calls |-> <<[fn |-> "delete", ok |-> FALSE]>>]
        ELSE [val |-> TRUE, coll |-> r.val, calls |-> <<[fn |-> "delete", ok |-> TRUE]>>]

(***************************************************************************)
(* agent.py: HealthcareAgent.  Each operation returns                      *)
(*   [raised, result, calls]                                               *)
(* raised: an exception reached the caller; result: the dict returned;     *)
(* calls: the store and completion calls made, in order.  The two          *)
(* operations that write also return the collection they leave (coll).     *)
(***************************************************************************)
StoreCall(fn, r) == [fn |-> fn, ok |-> r.exc = None]
SearchCall(query, n_results, category, r) ==
    [fn |-> "search", ok |-> r.exc = None, query |-> query,
     n_results |-> n_results, category |-> category]

UserContextItem(user_context) ==
    [text |-> user_context, metadata |-> [source |-> "user_context"]]

\* mutant: the ad-hoc item is put after the retrieved documents
AssembleContext_appends(user_context, retrieved) ==
    IF Truthy(user_context)
    THEN retrieved \o <<UserContextItem(user_context)>> ELSE retrieved

\* mutant: the ad-hoc item is added without testing user_context
AssembleContext_unguarded(user_context, retrieved) ==
    <<UserContextItem(user_context)>> \o retrieved

\* an assembler that drops a retrieved document repeating the ad-hoc text
AssembleContext_dedups(user_context, retrieved) ==
    IF Truthy(user_context)
    THEN <<UserContextItem(user_context)>>
         \o SelectSeq(retrieved, LAMBDA d : d.text # user_context)
    ELSE retrieved

\* "if user_context: context_documents = [item] + context_documents"
AssembleContext(user_context, retrieved) ==
    IF Truthy(user_context)
    THEN <<UserContextItem(user_context)>> \o retrieved ELSE retrieved

\* mutant: context_documents is returned only when include_context is set
process_query_hides_adhoc(coll, user_input, search_k, include_context, category, user_context, fails, backend) ==
    LET s == IF include_context
             THEN search(coll, user_input, search_k, category, fails)
             ELSE Returned(<<>>)
        searched == IF include_context
                    THEN <<SearchCall(user_input, search_k, category, s)>> ELSE <<>>
    IN  IF s.exc # None
        THEN [raised |-> FALSE, calls |-> searched,
              result |-> [query |-> user_input,
                          response |-> "Error processing query: " \o s.exc,
                          context_used |-> 0,
                          context_documents |-> <<>>,
                          status |-> "error",
                          error |-> s.exc]]
        ELSE LET context_documents == AssembleContext(user_context, s.val)
                 response == generate_response(user_input, context_documents, TRUE, backend)
             IN  [raised |-> FALSE, calls |-> searched \o response.calls,
                  result |-> [query |-> user_input,
                              response |-> response.text,
                              context_used |-> Len(context_documents),
                              context_documents |->
                                  IF include_context
                                  THEN context_documents ELSE <<>>,
                              category |-> category,
                              status |-> "success"]]

\* mutant: the search runs whatever include_context is
process_query_always_searches(coll, user_input, search_k, include_context, category, user_context, fails, backend) ==
    LET s == search(coll, user_input, search_k, category, fails)
        searched == <<SearchCall(user_input, search_k, category, s)>>
    IN  IF s.exc # None
        THEN [raised |-> FALSE, calls |-> searched,
              result |-> [query |-> user_input,
                          response |-> "Error processing query: " \o s.exc,
                          context_used |-> 0,
                          context_documents |-> <<>>,
                          status |-> "error",
                          error |-> s.exc]]
        ELSE LET context_documents == AssembleContext(user_context, s.val)
                 response == generate_response(user_input, context_documents, TRUE, backend)
             IN  [raised |-> FALSE, calls |-> searched \o response.calls,
                  result |-> [query |-> user_input,
                              response |-> response.text,
                              context_used |-> Len(context_documents),
                              context_documents |->
                                  IF include_context \/ Truthy(user_context)
                                  THEN context_documents ELSE <<>>,
                              category |-> category,
                              status |-> "success"]]

\* mutant: the context is dropped when the completion failed
process_query_drops_context_on_failure(coll, user_input, search_k, include_context, category, user_context, fails, backend) ==
    LET s == IF include_context
             THEN search(coll, user_input, search_k, category, fails)
             ELSE Returned(<<>>)
        searched == IF include_context
                    THEN <<SearchCall(user_input, search_k, category, s)>> ELSE <<>>
    IN  IF s.exc # None
        THEN [raised |-> FALSE, calls |-> searched,
              result |-> [query |-> user_input,
                          response |-> "Error processing query: " \o s.exc,
                          context_used |-> 0,
                          context_documents |-> <<>>,
                          status |-> "error",
                          error |-> s.exc]]
        ELSE LET context_documents ==
                     IF backend.ok THEN AssembleContext(user_context, s.val) ELSE <<>>
                 response == generate_response(user_input, context_documents, TRUE, backend)
             IN  [raised |-> FALSE, calls |-> searched \o response.calls,
                  result |-> [query |-> user_input,
                              response |-> response.text,
                              context_used |-> Len(context_documents),
                              context_documents |->
                                  IF include_context \/ Truthy(user_context)
                                  THEN context_documents ELSE <<>>,
                              category |-> category,
                              status |-> "success"]]

process_query(coll, user_input, search_k, include_context, category, user_context, fails, backend) ==
    LET s == IF include_context
             THEN search(coll, user_input, search_k, category, fails)
             ELSE Returned(<<>>)
        searched == IF include_context
                    THEN <<SearchCall(user_input, search_k, category, s)>> ELSE <<>>
    IN  IF s.exc # None
        THEN [raised |-> FALSE, calls |-> searched,
              result |-> [query |-> user_input,
                          response |-> "Error processing query: " \o s.exc,
                          context_used |-> 0,
                          context_documents |-> <<>>,
                          status |-> "error",
                          error |-> s.exc]]
        ELSE LET context_documents == AssembleContext(user_context, s.val)
                 response == generate_response(user_input, context_documents, TRUE, backend)
             IN  [raised |-> FALSE, calls |-> searched \o response.calls,
                  result |-> [query |-> user_input,
                              response |-> response.text,
                              context_used |-> Len(context_documents),
                              context_documents |->
                                  IF include_context \/ Truthy(user_context)
                                  THEN context_documents ELSE <<>>,
                              category |-> category,
                              status |-> "success"]]

\* assess_symptoms treating an empty search result as an error
assess_symptoms_needs_context(coll, symptoms, search_k, fails, backend) ==
    LET symptom_query == Join(symptoms, " ")
        s == search(coll, symptom_query, search_k, None, fails)
        searched == <<SearchCall(symptom_query, search_k, None, s)>>
        assessment == generate_health_assessment(symptoms, s.val, backend)
        e == IF s.exc # None THEN s.exc
             ELSE IF s.val = <<>> THEN "No relevant documents found"
             ELSE assessment.exc
    IN  IF e # None
        THEN [raised |-> FALSE, calls |-> searched,
              result |-> [symptoms |-> symptoms,
                          assessment |-> "Error generating assessment: " \o e,
                          context_used |-> 0,
                          context_documents |-> <<>>,
                          status |-> "error",
                          error |-> e]]
        ELSE [raised |-> FALSE, calls |-> searched \o assessment.calls,
              result |-> [symptoms |-> symptoms,
                          assessment |-> assessment.text,
                          context_used |-> Len(s.val),
                          context_documents |-> s.val,
                          status |-> "success"]]

assess_symptoms(coll, symptoms, search_k, fails, backend) ==
    LET symptom_query == Join(symptoms, " ")
        s == search(coll, symptom_query, search_k, None, fails)
        searched == <<SearchCall(symptom_query, search_k, None, s)>>
        assessment == generate_health_assessment(symptoms, s.val, backend)
        e == IF s.exc # None THEN s.exc ELSE assessment.exc
    IN  IF e # None
        THEN [raised |-> FALSE, calls |-> searched,
              result |-> [symptoms |-> symptoms,
                          assessment |-> "Error generating assessment: " \o e,
                          context_used |-> 0,
                          context_documents |-> <<>>,
                          status |-> "error",
                          error |-> e]]
        ELSE [raised |-> FALSE, calls |-> searched \o assessment.calls,
              result |-> [symptoms |-> symptoms,
                          assessment |-> assessment.text,
                          context_used |-> Len(s.val),
                          context_documents |-> s.val,
                          status |-> "success"]]

\* get_medication_info searching without the category filter
get_medication_info_unfiltered(coll, medication_name, search_k, fails, backend) ==
    LET s == search(coll, medication_name, search_k, None, fails)
        searched == <<SearchCall(medication_name, search_k, None, s)>>
        info == generate_medication_info(medication_name, s.val, backend)
        e == IF s.exc # None THEN s.exc ELSE info.exc
    IN  IF e # None
        THEN [raised |-> FALSE, calls |-> searched,
              result |-> [medication |-> medication_name,
                          information |-> "Error generating medication info: " \o e,
                          context_used |-> 0,
                          context_documents |-> <<>>,
                          status |-> "error",
                          error |-> e]]
        ELSE [raised |-> FALSE, calls |-> searched \o info.calls,
              result |-> [medication |-> medication_name,
                          information |-> info.text,
                          context_used |-> Len(s.val),
                          context_documents |-> s.val,
                          status |-> "success"]]

\* get_medication_info reporting no context when the completion call failed
get_medication_info_drops_context_on_failure(coll, medication_name, search_k, fails, backend) ==
    LET s == search(coll, medication_name, search_k, "medications", fails)
        searched == <<SearchCall(medication_name, search_k, "medications", s)>>
        info == generate_medication_info(medication_name, s.val, backend)
        e == IF s.exc # None THEN s.exc ELSE info.exc
        kept == IF \E i \in DOMAIN info.calls : ~info.calls[i].ok THEN <<>> ELSE s.val
    IN  IF e # None
        THEN [raised |-> FALSE, calls |-> searched,
              result |-> [medication |-> medication_name,
                          information |-> "Error generating medication info: " \o e,
                          context_used |-> 0,
                          context_documents |-> <<>>,
                          status |-> "error",
                          error |-> e]]
        ELSE [raised |-> FALSE, calls |-> searched \o info.calls,
              result |-> [medication |-> medication_name,
                          information |-> info.text,
                          context_used |-> Len(kept),
                          context_documents |-> kept,
                          status |-> "success"]]

get_medication_info(coll, medication_name, search_k, fails, backend) ==
    LET s == search(coll, medication_name, search_k, "medications", fails)
        searched == <<SearchCall(medication_name, search_k, "medications", s)>>
        info == generate_medication_info(medication_name, s.val, backend)
        e == IF s.exc # None THEN s.exc ELSE info.exc
    IN  IF e # None
        THEN [raised |-> FALSE, calls |-> searched,
              result |-> [medication |-> medication_name,
                          information |-> "Error generating medication info: " \o e,
                          context_used |-> 0,
                          context_documents |-> <<>>,
                          status |-> "error",
                          error |-> e]]
        ELSE [raised |-> FALSE, calls |-> searched \o info.calls,
              result |-> [medication |-> medication_name,
                          information |-> info.text,
                          context_used |-> Len(s.val),
                          context_documents |-> s.val,
                          status |-> "success"]]

\* mutant: the error result reports the size of the batch
add_healthcare_knowledge_counts_on_error(coll, documents, fails, onExisting) ==
    LET a == add_documents(coll, documents, fails, onExisting)
        called == IF a.calls = 1 THEN <<StoreCall("add", a)>> ELSE <<>>
    IN  IF a.exc # None
        THEN [raised |-> FALSE, calls |-> called, coll |-> coll,
              result |-> [status |-> "error",
                          documents_added |-> Len(documents),
                          message |-> "Error adding documents: " \o a.exc,
                          error |-> a.exc]]
        ELSE [raised |-> FALSE, calls |-> called, coll |-> a.val,
              result |-> [status |-> "success",
                          documents_added |-> Len(documents),
                          message |-> "Successfully added " \o ToString(Len(documents))
                                      \o " healthcare documents to knowledge base"]]

add_healthcare_knowledge(coll, documents, fails, onExisting) ==
    LET a == add_documents(coll, documents, fails, onExisting)
        called == IF a.calls = 1 THEN <<StoreCall("add", a)>> ELSE <<>>
    IN  IF a.exc # None
        THEN [raised |-> FALSE, calls |-> called, coll |-> coll,
              result |-> [status |-> "error",
                          documents_added |-> 0,
                          message |-> "Error adding documents: " \o a.exc,
                          error |-> a.exc]]
        ELSE [raised |-> FALSE, calls |-> called, coll |-> a.val,
              result |-> [status |-> "success",
                          documents_added |-> Len(documents),
                          message |-> "Successfully added " \o ToString(Len(documents))
                                      \o " healthcare documents to knowledge base"]]

\* doc.get("metadata", {}).get("category", "uncategorized")
CategoryOf(doc) ==
    IF "metadata" \in DOMAIN doc /\ "category" \in DOMAIN doc.metadata
    THEN doc.metadata.category ELSE "uncategorized"

HEALTHCARE_COLLECTION == "healthcare_knowledge"

\* get_healthcare_stats counting only the documents that carry a category
get_healthcare_stats_skips_uncategorized(listed, coll, failsAll, failsCats) ==
    LET all_docs == get_all_documents(listed, failsAll)
        categories == get_categories(coll, failsCats)
        called == <<StoreCall("get", all_docs)>>
                  \o (IF all_docs.exc = None THEN <<StoreCall("get", categories)>> ELSE <<>>)
        e == IF all_docs.exc # None THEN all_docs.exc ELSE categories.exc
    IN  IF e # None
        THEN [raised |-> FALSE, calls |-> called,
              result |-> [status |-> "error",
                          total_documents |-> 0,
                          categories |-> {},
                          category_counts |-> EmptyDict,
                          error |-> e]]
        ELSE LET docs == all_docs.val
                 seen == {CategoryOf(docs[i]) : i \in 1..Len(docs)} \ {"uncategorized"}
             IN  [raised |-> FALSE, calls |-> called,
                  result |-> [status |-> "success",
                              total_documents |-> Len(docs),
                              categories |-> categories.val,
                              category_counts |->
                                  [c \in seen |->
                                      Cardinality({i \in 1..Len(docs) : CategoryOf(docs[i]) = c})],
                              collection_name |-> HEALTHCARE_COLLECTION]]

\* get_healthcare_stats from what its two store calls returned: all_docs from
\* get_all_documents and, unless that raised, categories from get_categories
StatsFrom(all_docs, categories) ==
    LET called == <<StoreCall("get", all_docs)>>
                  \o (IF all_docs.exc = None THEN <<StoreCall("get", categories)>> ELSE <<>>)
        e == IF all_docs.exc # None THEN all_docs.exc ELSE categories.exc
    IN  IF e # None
        THEN [raised |-> FALSE, calls |-> called,
              result |-> [status |-> "error",
                          total_documents |-> 0,
                          categories |-> {},
                          category_counts |-> EmptyDict,
                          error |-> e]]
        ELSE LET docs == all_docs.val
                 seen == {CategoryOf(docs[i]) : i \in 1..Len(docs)}
             IN  [raised |-> FALSE, calls |-> called,
                  result |-> [status |-> "success",
                              total_documents |-> Len(docs),
                              categories |-> categories.val,
                              category_counts |->
                                  [c \in seen |->
                                      Cardinality({i \in 1..Len(docs) : CategoryOf(docs[i]) = c})],
                              collection_name |-> HEALTHCARE_COLLECTION]]

\* The two store calls are separate reads: listed is the collection as
\* get_all_documents finds it, coll the collection as get_categories finds it
\* afterwards.  failsAll / failsCats: whether the first, the second call fails.
get_healthcare_stats(listed, coll, failsAll, failsCats) ==
    StatsFrom(get_all_documents(listed, failsAll), get_categories(coll, failsCats))

search_by_category(coll, query, category, n_results, fails) ==
    LET s == search(coll, query, n_results, category, fails)
        searched == <<SearchCall(query, n_results, category, s)>>
    IN  IF s.exc # None
        THEN [raised |-> FALSE, calls |-> searched,
              result |-> [status |-> "error", query |-> query, category |-> category,
                          results |-> <<>>, count |-> 0, error |-> s.exc]]
        ELSE [raised |-> FALSE, calls |-> searched,
              result |-> [status |-> "success", query |-> query, category |-> category,
                          results |-> s.val, count |-> Len(s.val)]]

agent_get_documents_by_category(coll, category, fails) ==
    LET d == get_documents_by_category(coll, category, fails)
    IN  IF d.exc # None
        THEN [raised |-> FALSE, calls |-> <<StoreCall("get", d)>>,
              result |-> [status |-> "error", category |-> category,
                          documents |-> <<>>, count |-> 0, error |-> d.exc]]
        ELSE [raised |-> FALSE, calls |-> <<StoreCall("get", d)>>,
              result |-> [status |-> "success", category |-> category,
                          documents |-> d.val, count |-> Len(d.val)]]

\* clear_knowledge reporting success whatever the store call did
clear_knowledge_reports_success(coll, fails) ==
    LET c == clear_collection(coll, fails)
    IN  [raised |-> FALSE, calls |-> <<StoreCall("delete", c)>>,
         coll |-> IF c.exc # None THEN coll ELSE c.val,
         result |-> [status |-> "success",
                     message |-> "Healthcare knowledge base cleared successfully"]]

clear_knowledge(coll, fails) ==
    LET c == clear_collection(coll, fails)
    IN  IF c.exc # None
        THEN [raised |-> FALSE, calls |-> <<StoreCall("delete", c)>>, coll |-> coll,
              result |-> [status |-> "error",
                          message |-> "Error clearing knowledge base: " \o c.exc,
                          error |-> c.exc]]
        ELSE [raised |-> FALSE, calls |-> <<StoreCall("delete", c)>>, coll |-> c.val,
              result |-> [status |-> "success",
                          message |-> "Healthcare knowledge base cleared successfully"]]

\* The loop of HealthcareAgent.chat_conversation over reversed(messages): the
\* content of the last message whose role is "user", "" if there is none;
\* msg["role"] and msg["content"] raise KeyError on a message without the key.
RECURSIVE LastUserMessage(_)
LastUserMessage(messages) ==
    IF messages = <<>> THEN Returned("")
    ELSE LET msg == messages[Len(messages)]
         IN  IF "role" \notin DOMAIN msg THEN Raised("'role'")
             ELSE IF msg.role = "user"
                  THEN (IF "content" \notin DOMAIN msg THEN Raised("'content'")
                        ELSE Returned(msg.content))
             ELSE LastUserMessage(SubSeq(messages, 1, Len(messages) - 1))

\* the except branch of HealthcareAgent.chat_conversation
ConversationError(exc, calls) ==
    [raised |-> FALSE, calls |-> calls,
     result |-> [status |-> "error",
                 response |-> "Error in conversation: " \o exc,
                 context_used |-> 0,
                 context_documents |-> <<>>,
                 error |-> exc]]

\* chat_conversation searching with the first user message instead of the last
chat_conversation_first_user(coll, messages, search_k, user_context, fails, backend) ==
    LET inspected == {i \in DOMAIN messages :
                         "role" \notin DOMAIN messages[i] \/ messages[i].role = "user"}
        first == CHOOSE i \in inspected : \A j \in inspected : i <= j
        found == IF inspected = {} THEN Returned("")
                 ELSE IF "role" \notin DOMAIN messages[first] THEN Raised("'role'")
                 ELSE IF "content" \notin DOMAIN messages[first] THEN Raised("'content'")
                 ELSE Returned(messages[first].content)
    IN  IF found.exc # None THEN ConversationError(found.exc, <<>>)
        ELSE
        LET last_user_message == found.val
            s == IF Truthy(last_user_message)
                 THEN search(coll, last_user_message, search_k, None, fails)
                 ELSE Returned(<<>>)
            searched == IF Truthy(last_user_message)
                        THEN <<SearchCall(last_user_message, search_k, None, s)>> ELSE <<>>
        IN  IF s.exc # None THEN ConversationError(s.exc, searched)
            ELSE LET context_documents == AssembleContext(user_context, s.val)
                     response == llm_chat_conversation(messages, context_documents, backend)
                 IN  IF response.exc # None THEN ConversationError(response.exc, searched)
                     ELSE [raised |-> FALSE, calls |-> searched \o response.calls,
                           result |-> [status |-> "success",
                                       response |-> response.text,
                                       context_used |-> Len(context_documents),
                                       context_documents |-> context_documents]]

chat_conversation(coll, messages, search_k, user_context, fails, backend) ==
    LET found == LastUserMessage(messages)
    IN  IF found.exc # None THEN ConversationError(found.exc, <<>>)
        ELSE
        LET last_user_message == found.val
            s == IF Truthy(last_user_message)
                 THEN search(coll, last_user_message, search_k, None, fails)
                 ELSE Returned(<<>>)
            searched == IF Truthy(last_user_message)
                        THEN <<SearchCall(last_user_message, search_k, None, s)>> ELSE <<>>
        IN  IF s.exc # None THEN ConversationError(s.exc, searched)
            ELSE LET context_documents == AssembleContext(user_context, s.val)
                     response == llm_chat_conversation(messages, context_documents, backend)
                 IN  IF response.exc # None THEN ConversationError(response.exc, searched)
                     ELSE [raised |-> FALSE, calls |-> searched \o response.calls,
                           result |-> [status |-> "success",
                                       response |-> response.text,
                                       context_used |-> Len(context_documents),
                                       context_documents |-> context_documents]]

(***************************************************************************)
(* The state machine.                                                      *)
(***************************************************************************)
VARIABLES collection,   \* the entries of the collection, in insertion order
          last          \* the operation that ran last: [op, args, raised, result, calls];
                        \* op is "pending" while the request followed stands
                        \* between its store read and its return

vars == <<collection, last>>

\* Documents a caller may insert: with or without id; the last one has the
\* shape the HTTP layer builds for a document without doc_id.
DocPool == {[text |-> "aspirin", metadata |-> [category |-> "medications"], id |-> "a"],
            [text |-> "fever", metadata |-> [category |-> "diseases"]],
            [text |-> "aspirin", metadata |-> [category |-> "medications"], id |-> None]}

Batches == UNION {[1..n -> DocPool] : n \in 0..MaxBatch}

\* insert calls whose documents carry no metadata key
PlainBatches == UNION {[1..n -> {[text |-> "fever"]}] : n \in 1..MaxBatch}

\* What the two collaborators do during one operation: the store call fails,
\* or it succeeds and the completion service answers or fails.
Envs == {[fails |-> FALSE, backend |-> b] : b \in Backends}
        \cup {[fails |-> TRUE, backend |-> CHOOSE b \in Backends : b.ok]}

SymptomLists == {<<>>, <<"fever">>, <<"fever", "aspirin">>}

\* Message lists a caller may send (api.py:143 hands the JSON body's list to
\* the agent as it came): well-formed histories, a message with a key beyond
\* role and content, a user message whose content is empty or null, and
\* messages lacking content or role.
Histories == {<<>>,
              <<[role |-> "user", content |-> "fever"]>>,
              <<[role |-> "user", content |-> "fever"],
                [role |-> "system", content |-> "Be brief."],
                [role |-> "user", content |-> "aspirin", name |-> "pat"],
                [role |-> "assistant", content |-> "Noted."]>>,
              <<[role |-> "assistant", content |-> "Hello."]>>,
              <<[role |-> "user", content |-> "fever"],
                [role |-> "user", content |-> ""]>>,
              <<[role |-> "user", content |-> None]>>,
              <<[content |-> "fever"],
                [role |-> "user", content |-> "aspirin"]>>,
              <<[role |-> "assistant"]>>,
              <<[role |-> "user"]>>,
              <<[role |-> "user", content |-> "fever"],
                [content |-> "Hello."]>>}

\* every message of the history carries a role, and a content if its role is
\* "user" or "assistant": neither loop over the messages raises KeyError
Sendable(messages) ==
    \A i \in DOMAIN messages :
        /\ "role" \in DOMAIN messages[i]
        /\ messages[i].role \in {"user", "assistant"} => "content" \in DOMAIN messages[i]

\* chat_conversation reaches its search on this history
Searches(messages) ==
    LastUserMessage(messages).exc = None /\ Truthy(LastUserMessage(messages).val)

Outcome(op, args, out) ==
    [op |-> op, args |-> args, raised |-> out.raised,
     result |-> out.result, calls |-> out.calls]

\* The outcome of an operation that read the store and returned later: view is
\* the collection as its read found it.
OutcomeOn(view, op, args, out) ==
    [op |-> op, args |-> args, raised |-> out.raised,
     result |-> out.result, calls |-> out.calls, view |-> view]

\* The store is a PersistentClient on disk: _get_or_create_collection reopens
\* the collection an earlier run has left and creates an empty one only when
\* there is none.  Persisted(n, inserts) is what up to n add_healthcare_knowledge
\* calls of earlier runs, with documents from inserts, can have left.
RECURSIVE Persisted(_, _)
Persisted(n, inserts) ==
    IF n = 0 THEN {<<>>}
    ELSE LET before == Persisted(n - 1, inserts)
         IN  before \cup
             {c \in {add_healthcare_knowledge(coll, documents, FALSE, onExisting).coll :
                        coll \in before, documents \in inserts,
                        onExisting \in {"raise", "skip"}} :
                 Len(c) <= MaxDocs}

Init ==
    /\ collection \in Persisted(MaxDocs, Batches)
    /\ last = [op |-> "none", args |-> EmptyDict, raised |-> FALSE,
               result |-> EmptyDict, calls |-> <<>>]

(***************************************************************************)
(* Requests run in threads of their own on one shared agent (api.py:10,     *)
(* app.run at api.py:181) and the agent takes no lock.  An operation that   *)
(* reads the store and then waits (for the completion service, or for a     *)
(* second store call) returns what it read, whatever other requests have    *)
(* written to the store since.  last follows one request: StoreRead is its  *)
(* read, the action of the operation is its return, and ConcurrentAdd and   *)
(* ConcurrentClear are the writes of other requests in between, whose       *)
(* results go to their own callers.  Taken in a state where no read is      *)
(* pending, the action of an operation runs it from start to end with no    *)
(* other request in between.                                                *)
(***************************************************************************)
\* the first store call of the request followed: vector_db.search of the
\* four context operations, get_all_documents of get_healthcare_stats
StoreRead ==
    /\ last' = [op |-> "pending", args |-> EmptyDict, raised |-> FALSE,
                result |-> EmptyDict, calls |-> <<>>, view |-> collection]
    /\ UNCHANGED collection

\* the collection as the request followed has read it
ReadView == IF last.op = "pending" THEN last.view ELSE collection

\* add_healthcare_knowledge of another request while the one followed waits
ConcurrentAdd ==
    /\ last.op = "pending"
    /\ \E documents \in Batches, fails \in BOOLEAN, onExisting \in {"raise", "skip"} :
       \E out \in {add_healthcare_knowledge(collection, documents, fails, onExisting)} :
           /\ Len(out.coll) <= MaxDocs
           /\ collection' = out.coll
    /\ UNCHANGED last

\* clear_knowledge of another request while the one followed waits
ConcurrentClear ==
    /\ last.op = "pending"
    /\ \E fails \in BOOLEAN : collection' = clear_knowledge(collection, fails).coll
    /\ UNCHANGED last

\* search_k, category and a failing store call make a difference only when
\* the operation searches
ProcessQuery ==
    \E user_input \in Queries, include_context \in BOOLEAN,
       user_context \in UserContexts :
    \E search_k \in (IF include_context THEN Ks ELSE {MaxK}),
       category \in (IF include_context THEN {None, "medications"} ELSE {None}),
       env \in (IF include_context THEN Envs ELSE {e \in Envs : ~e.fails}) :
        /\ last' = OutcomeOn(ReadView, "process_query",
                             [user_input |-> user_input, search_k |-> search_k,
                              include_context |-> include_context,
                              category |-> category, user_context |-> user_context],
                             process_query(ReadView, user_input, search_k,
                                           include_context, category, user_context,
                                           env.fails, env.backend))
        /\ UNCHANGED collection

AssessSymptoms ==
    \E symptoms \in SymptomLists, search_k \in Ks, env \in Envs :
        /\ last' = OutcomeOn(ReadView, "assess_symptoms",
                             [symptoms |-> symptoms, search_k |-> search_k],
                             assess_symptoms(ReadView, symptoms, search_k,
                                             env.fails, env.backend))
        /\ UNCHANGED collection

GetMedicationInfo ==
    \E medication_name \in Queries, search_k \in Ks, env \in Envs :
        /\ last' = OutcomeOn(ReadView, "get_medication_info",
                             [medication_name |-> medication_name, search_k |-> search_k],
                             get_medication_info(ReadView, medication_name, search_k,
                                                 env.fails, env.backend))
        /\ UNCHANGED collection

\* An input the call never reads is held fixed: search_k and the store's
\* outcome when no search is made, user_context and the completion service's
\* outcome when a message loop raises KeyError.
ChatConversation ==
    \E messages \in Histories :
    \E user_context \in (IF Sendable(messages) THEN UserContexts ELSE {"fever"}),
       search_k \in (IF Searches(messages) THEN Ks ELSE {MaxK}),
       env \in {e \in Envs : /\ ~Searches(messages) => ~e.fails
                             /\ ~Sendable(messages) => e.backend.ok} :
        /\ last' = OutcomeOn(ReadView, "chat_conversation",
                             [messages |-> messages, search_k |-> search_k,
                              user_context |-> user_context],
                             chat_conversation(ReadView, messages, search_k,
                                               user_context, env.fails, env.backend))
        /\ UNCHANGED collection

AddHealthcareKnowledge ==
    \E documents \in Batches, fails \in BOOLEAN, onExisting \in {"raise", "skip"} :
        LET out == add_healthcare_knowledge(collection, documents, fails, onExisting)
        IN  /\ Len(out.coll) <= MaxDocs
            /\ collection' = out.coll
            /\ last' = Outcome("add_healthcare_knowledge", [documents |-> documents], out)

\* get_all_documents has read ReadView; get_categories reads the collection
\* as it is when the operation comes to its second call
GetHealthcareStats ==
    \E failsAll \in BOOLEAN, failsCats \in BOOLEAN :
        /\ last' = OutcomeOn(ReadView, "get_healthcare_stats", EmptyDict,
                             get_healthcare_stats(ReadView, collection,
                                                  failsAll, failsCats))
        /\ UNCHANGED collection

SearchByCategory ==
    \E query \in Queries, category \in Categories \ {None}, n_results \in Ks,
       fails \in BOOLEAN :
        /\ last' = Outcome("search_by_category",
                           [query |-> query, category |-> category, n_results |-> n_results],
                           search_by_category(collection, query, category, n_results, fails))
        /\ UNCHANGED collection

\* a listing by category that empties the collection it has read
GetDocumentsByCategory_clears ==
    \E category \in Categories \ {None}, fails \in BOOLEAN :
        /\ last' = Outcome("get_documents_by_category", [category |-> category],
                           agent_get_documents_by_category(collection, category, fails))
        /\ collection' = <<>>

GetDocumentsByCategory ==
    \E category \in Categories \ {None}, fails \in BOOLEAN :
        /\ last' = Outcome("get_documents_by_category", [category |-> category],
                           agent_get_documents_by_category(collection, category, fails))
        /\ UNCHANGED collection

ClearKnowledge ==
    \E fails \in BOOLEAN :
        LET out == clear_knowledge(collection, fails)
        IN  /\ collection' = out.coll
            /\ last' = Outcome("clear_knowledge", EmptyDict, out)

Next ==
    \/ StoreRead
    \/ ConcurrentAdd
    \/ ConcurrentClear
    \/ ProcessQuery
    \/ AssessSymptoms
    \/ GetMedicationInfo
    \/ ChatConversation
    \/ AddHealthcareKnowledge
    \/ GetHealthcareStats
    \/ SearchByCategory
    \/ GetDocumentsByCategory
    \/ ClearKnowledge

Spec == Init /\ [][Next]_vars

(***************************************************************************)
(* The store on its own: the operations that write the collection, the     *)
(* statistics that read it back, and VectorDB.delete_document, which no     *)
(* agent operation calls.                                                   *)
(***************************************************************************)
\* an explicit id, an id add_documents generates, and an id never stored
DocIds == {"a", GeneratedId(0), "missing"}

DeleteDocument ==
    \E doc_id \in DocIds, fails \in BOOLEAN :
        LET out == delete_document(collection, doc_id, fails)
        IN  /\ collection' = out.coll
            /\ last' = [op |-> "delete_document", args |-> [doc_id |-> doc_id],
                        raised |-> FALSE, result |-> out.val, calls |-> out.calls]

\* add_healthcare_knowledge given documents that carry neither metadata nor
\* id
AddWithoutMetadata ==
    \E documents \in PlainBatches,
       fails \in BOOLEAN, onExisting \in {"raise", "skip"} :
        LET out == add_healthcare_knowledge(collection, documents, fails, onExisting)
        IN  /\ Len(out.coll) <= MaxDocs
            /\ collection' = out.coll
            /\ last' = Outcome("add_healthcare_knowledge", [documents |-> documents], out)

StoreNext ==
    \/ StoreRead
    \/ ConcurrentAdd
    \/ ConcurrentClear
    \/ AddHealthcareKnowledge
    \/ AddWithoutMetadata
    \/ GetHealthcareStats
    \/ ClearKnowledge
    \/ DeleteDocument

\* the collection reopened may hold documents without metadata as well
StoreInit ==
    /\ collection \in Persisted(MaxDocs, Batches \cup PlainBatches)
    /\ last = [op |-> "none", args |-> EmptyDict, raised |-> FALSE,
               result |-> EmptyDict, calls |-> <<>>]

StoreSpec == StoreInit /\ [][StoreNext]_vars

(***************************************************************************)
(* The LLM handler's template methods called on their own.                  *)
(***************************************************************************)
\* the longest template, in parts
MaxParts == 2

TemplateParts == {Lit("Symptoms: "), Field("symptoms"), Field("context")}
Templates == UNION {[1..n -> TemplateParts] : n \in 0..MaxParts}
VariableMaps == UNION {[S -> {"fever"}] : S \in SUBSET {"symptoms", "context"}}
ContextLists == {<<>>, <<[text |-> "aspirin", metadata |-> [category |-> "medications"]]>>}

LlmOutcome(op, args, out) ==
    [op |-> op, args |-> args, raised |-> out.exc # None,
     result |-> [text |-> out.text], calls |-> out.calls]

GenerateWithTemplate ==
    \E template \in Templates, variables \in VariableMaps,
       context_documents \in ContextLists, backend \in Backends :
        /\ last' = LlmOutcome("generate_with_template",
                              [template |-> template, variables |-> variables,
                               context_documents |-> context_documents],
                              generate_with_template(template, variables,
                                                     context_documents, backend))
        /\ UNCHANGED collection

GenerateHealthAssessment ==
    \E symptoms \in SymptomLists, context_documents \in ContextLists,
       backend \in Backends :
        /\ last' = LlmOutcome("generate_health_assessment",
                              [symptoms |-> symptoms,
                               context_documents |-> context_documents],
                              generate_health_assessment(symptoms, context_documents,
                                                         backend))
        /\ UNCHANGED collection

GenerateMedicationInfo ==
    \E medication_name \in Queries, context_documents \in ContextLists,
       backend \in Backends :
        /\ last' = LlmOutcome("generate_medication_info",
                              [medication_name |-> medication_name,
                               context_documents |-> context_documents],
                              generate_medication_info(medication_name,
                                                       context_documents, backend))
        /\ UNCHANGED collection

LlmNext ==
    \/ GenerateWithTemplate
    \/ GenerateHealthAssessment
    \/ GenerateMedicationInfo

LlmSpec == Init /\ [][LlmNext]_vars

(***************************************************************************)
(* get_healthcare_stats of one request while other requests write.         *)
(***************************************************************************)
ConcNext ==
    \/ StoreRead
    \/ GetHealthcareStats
    \/ ConcurrentAdd
    \/ ConcurrentClear
    \/ AddHealthcareKnowledge
    \/ ClearKnowledge

ConcSpec == Init /\ [][ConcNext]_vars

(***************************************************************************)
(* api.py: the POST /query handler on top of the agent.                     *)
(***************************************************************************)
\* The first step of the handler: a non-empty user_context is handed to
\* add_healthcare_knowledge as a document with id None.
StoreUserContext(coll, user_context, failsAdd, onExisting) ==
    IF Truthy(user_context)
    THEN add_healthcare_knowledge(
             coll,
             <<[text |-> user_context,
                metadata |-> [source |-> "user_context", type |-> "user_submission"],
                id |-> None]>>,
             failsAdd, onExisting)
    ELSE [coll |-> coll, calls |-> <<>>]

\* The response: the result of process_query; what add_healthcare_knowledge
\* returned is dropped.  ops lists the agent operations called, in order.
QueryResponse(data, stored, result) ==
    [raised |-> result.raised, result |-> result.result,
     calls |-> stored.calls \o result.calls, coll |-> stored.coll,
     ops |-> (IF Truthy(data.user_context) THEN <<"add_healthcare_knowledge">> ELSE <<>>)
             \o <<"process_query">>]

QueryAgent(data, stored, fails, backend) ==
    QueryResponse(data, stored,
                  process_query(stored.coll, data.query, data.search_k,
                                data.include_context, data.category, data.user_context,
                                fails, backend))

\* process_query(): data is the request body
api_process_query(coll, data, failsAdd, onExisting, fails, backend) ==
    QueryAgent(data, StoreUserContext(coll, data.user_context, failsAdd, onExisting),
               fails, backend)

\* request bodies of POST /query
QueryBodies ==
    {data \in [query : Queries, search_k : Ks, include_context : BOOLEAN,
               category : {None, "medications"}, user_context : UserContexts] :
        ~data.include_context => (data.search_k = MaxK /\ data.category = None)}

\* The handler makes up to three calls one after the other: the insert of
\* the user_context, the search of process_query, the completion request.
\* QueryStore and QuerySearch are the two store calls of the request
\* followed, taken one at a time, with the writes of other requests
\* (ConcurrentAdd, ConcurrentClear) between them and before the return; at
\* tells which of the two it has made.
QueryStore ==
    \E data \in QueryBodies :
    \E failsAdd \in (IF Truthy(data.user_context) THEN BOOLEAN ELSE {FALSE}),
       onExisting \in (IF Truthy(data.user_context) THEN {"raise", "skip"} ELSE {"raise"}) :
    \E stored \in {StoreUserContext(collection, data.user_context, failsAdd, onExisting)} :
        /\ collection' = stored.coll
        /\ last' = [op |-> "pending", args |-> data, raised |-> FALSE,
                    result |-> EmptyDict, calls |-> stored.calls,
                    view |-> stored.coll, at |-> "stored"]

QuerySearch ==
    /\ last.op = "pending"
    /\ "at" \in DOMAIN last
    /\ last.at = "stored"
    /\ last' = [last EXCEPT !.view = collection, !.at = "searched"]
    /\ UNCHANGED collection

\* The return of the handler: of the request that stands after its search,
\* or else of a request handled from start to end with no other request in
\* between.
QueryEndpoint ==
    \/ /\ last.op = "pending"
       /\ "at" \in DOMAIN last
       /\ last.at = "searched"
       /\ \E env \in Envs :
          \E out \in {QueryAgent(last.args, [coll |-> last.view, calls |-> last.calls],
                                 env.fails, env.backend)} :
              last' = [op |-> "POST /query", args |-> last.args, raised |-> out.raised,
                       result |-> out.result, calls |-> out.calls, ops |-> out.ops]
       /\ UNCHANGED collection
    \/ /\ ~(last.op = "pending" /\ "at" \in DOMAIN last)
       /\ \E data \in QueryBodies, env \in Envs :
          \E failsAdd \in (IF Truthy(data.user_context) THEN BOOLEAN ELSE {FALSE}),
             onExisting \in (IF Truthy(data.user_context)
                             THEN {"raise", "skip"} ELSE {"raise"}) :
          \E out \in {api_process_query(collection, data, failsAdd, onExisting,
                                         env.fails, env.backend)} :
              /\ collection' = out.coll
              /\ last' = [op |-> "POST /query", args |-> data, raised |-> out.raised,
                          result |-> out.result, calls |-> out.calls, ops |-> out.ops]

ApiNext ==
    \/ AddHealthcareKnowledge
    \/ ClearKnowledge
    \/ QueryStore
    \/ QuerySearch
    \/ ConcurrentAdd
    \/ ConcurrentClear
    \/ QueryEndpoint

ApiSpec == Init /\ [][ApiNext]_vars

(***************************************************************************)
(* Vocabulary of the properties.                                           *)
(***************************************************************************)
ContextOps == {"process_query", "assess_symptoms", "get_medication_info",
               "chat_conversation"}

StoreFns == {"search", "get", "add", "delete"}

\* the collection as the operation of l read it: the one its store read found
\* if other requests could write before it returned, else the present one
ViewOf(l) == IF "view" \in DOMAIN l THEN l.view ELSE collection

\* the generated (or error) text of a result of one of the ContextOps
TextOf(l) ==
    CASE l.op = "assess_symptoms" -> l.result.assessment
      [] l.op = "get_medication_info" -> l.result.information
      [] OTHER -> l.result.response

CompletionFailed(l) ==
    \E i \in DOMAIN l.calls : l.calls[i].fn = "complete" /\ ~l.calls[i].ok
CompletionSucceeded(l) ==
    \E i \in DOMAIN l.calls : l.calls[i].fn = "complete" /\ l.calls[i].ok
StoreCallRaised(l) ==
    \E i \in DOMAIN l.calls : l.calls[i].fn \in StoreFns /\ ~l.calls[i].ok
SearchCalls(l) == SelectSeq(l.calls, LAMBDA c : c.fn = "search")

\* text is some completion followed by the disclaimer block
EndsWithDisclaimer(text) == \E b \in Backends : text = b.text \o DisclaimerBlock

\* the retrieved part of context_documents: all of it but a leading ad-hoc item
Retrieved(l) ==
    IF "user_context" \in DOMAIN l.args /\ Truthy(l.args.user_context)
       /\ l.result.context_documents # <<>>
    THEN Tail(l.result.context_documents)
    ELSE l.result.context_documents

HasCategory(item, c) ==
    "category" \in DOMAIN item.metadata /\ item.metadata.category = c

(***************************************************************************)
(* C1: every result of process_query, assess_symptoms, get_medication_info *)
(* and chat_conversation, success or error, has context_used equal to the  *)
(* length of its context_documents.                                        *)
(***************************************************************************)
C1_CountInvariant ==
    last.op \in ContextOps =>
        last.result.context_used = Len(last.result.context_documents)

\* a query answered from the ad-hoc item plus a retrieved document
C1_Witness ==
    /\ last.op = "process_query"
    /\ Truthy(last.args.user_context)
    /\ last.result.status = "success"
    /\ last.result.context_used = 2

(***************************************************************************)
(* C2 as claimed: when the completion call fails, each of the four         *)
(* operations returns status "error" and raises nothing.                   *)
(***************************************************************************)
C2_Claimed ==
    (last.op \in ContextOps /\ CompletionFailed(last)) =>
        (~last.raised /\ last.result.status = "error")

(***************************************************************************)
(* C2 amended: when the completion call fails, each of the four operations *)
(* raises nothing and returns status "success" whose text is the           *)
(* handler's error message (prefix, "OpenRouter API error: ", cause) with  *)
(* no disclaimer, and no error field.                                      *)
(***************************************************************************)
FailureTexts ==
    {prefix \o "OpenRouter API error: " \o b.text :
        prefix \in {"Error generating response: ", "Error in conversation: "},
        b \in {x \in Backends : ~x.ok}}

C2_Amended ==
    (last.op \in ContextOps /\ CompletionFailed(last)) =>
        /\ ~last.raised
        /\ last.result.status = "success"
        /\ "error" \notin DOMAIN last.result
        /\ TextOf(last) \in FailureTexts

C2_Witness ==
    /\ last.op = "assess_symptoms"
    /\ CompletionFailed(last)
    /\ last.result.context_used > 0

(***************************************************************************)
(* C3 as claimed: whenever the completion call succeeds, the text returned *)
(* by each of the four operations ends with the disclaimer block.          *)
(***************************************************************************)
C3_Claimed ==
    (last.op \in ContextOps /\ CompletionSucceeded(last)) =>
        EndsWithDisclaimer(TextOf(last))

(***************************************************************************)
(* C4: in process_query and chat_conversation, with a non-empty ad-hoc     *)
(* context and a success result, context_documents[1] is the synthetic     *)
(* item (that text, source "user_context") and every item after it is a    *)
(* retrieved search result.                                                *)
(***************************************************************************)
C4_AdHocFirst ==
    (/\ last.op \in {"process_query", "chat_conversation"}
     /\ Truthy(last.args.user_context)
     /\ last.result.status = "success") =>
        LET docs == last.result.context_documents
        IN  /\ docs # <<>>
            /\ docs[1] = [text |-> last.args.user_context,
                          metadata |-> [source |-> "user_context"]]
            /\ \A i \in 2..Len(docs) : {"id", "distance"} \subseteq DOMAIN docs[i]

\* the ad-hoc text precedes a retrieved document with the same text,
\* retrieval being switched on
C4_Witness ==
    /\ last.op = "process_query"
    /\ last.args.include_context
    /\ last.args.user_context = "fever"
    /\ last.result.status = "success"
    /\ Len(last.result.context_documents) = 2
    /\ last.result.context_documents[2].text = "fever"

(***************************************************************************)
(* C5: process_query with include_context false makes no search call,     *)
(* with or without ad-hoc context, and its context_documents holds only    *)
(* the synthetic ad-hoc item, if any.                                      *)
(***************************************************************************)
C5_NoSearchWhenDisabled ==
    (last.op = "process_query" /\ ~last.args.include_context) =>
        /\ SearchCalls(last) = <<>>
        /\ last.result.context_documents =
               IF Truthy(last.args.user_context)
               THEN <<[text |-> last.args.user_context,
                       metadata |-> [source |-> "user_context"]]>>
               ELSE <<>>

C5_Witness ==
    /\ last.op = "process_query"
    /\ ~last.args.include_context
    /\ Truthy(last.args.user_context)
    /\ \E i \in DOMAIN collection : collection[i].document = last.args.user_input

(***************************************************************************)
(* C6: process_query with include_context false and no ad-hoc context      *)
(* returns empty context_documents and context_used 0, whatever the store  *)
(* holds.                                                                  *)
(***************************************************************************)
C6_NoContext ==
    (/\ last.op = "process_query"
     /\ ~last.args.include_context
     /\ ~Truthy(last.args.user_context)) =>
        /\ last.result.context_documents = <<>>
        /\ last.result.context_used = 0

C6_Witness ==
    /\ last.op = "process_query"
    /\ ~last.args.include_context
    /\ ~Truthy(last.args.user_context)
    /\ \E i \in DOMAIN collection : collection[i].document = last.args.user_input

(***************************************************************************)
(* C7: when a store call (search, list, insert, clear) raises inside an    *)
(* agent operation, the operation raises nothing and returns status        *)
(* "error" with an error string, every counter 0 and every list field      *)
(* empty.                                                                  *)
(***************************************************************************)
Counters == {"context_used", "count", "documents_added", "total_documents"}
ListFields == {"context_documents", "results", "documents"}

C7_StoreFailureContained ==
    StoreCallRaised(last) =>
        /\ ~last.raised
        /\ last.result.status = "error"
        /\ "error" \in DOMAIN last.result
        /\ last.result.error \in StoreErrors \cup {"Expected ID to be a str, got None",
                                                   "Expected IDs to be unique",
                                                   "ID already exists"}
        /\ \A k \in Counters \cap DOMAIN last.result : last.result[k] = 0
        /\ \A k \in ListFields \cap DOMAIN last.result : last.result[k] = <<>>
        /\ "categories" \in DOMAIN last.result => last.result.categories = {}
        /\ "category_counts" \in DOMAIN last.result =>
               last.result.category_counts = EmptyDict

\* a rejected insert into a collection that already holds a document
C7_Witness ==
    /\ last.op = "add_healthcare_knowledge"
    /\ StoreCallRaised(last)
    /\ last.args.documents # <<>>
    /\ collection # <<>>

(***************************************************************************)
(* C8 as claimed: no two stored documents share an id, and after a         *)
(* successful insert every document of the batch that came without an id   *)
(* is in the collection (its text and metadata under some id).             *)
(***************************************************************************)
UniqueIds(coll) == \A i, j \in DOMAIN coll : coll[i].id = coll[j].id => i = j

Stored(coll, doc) ==
    \E j \in DOMAIN coll :
        /\ coll[j].document = doc.text
        /\ coll[j].metadata = IF "metadata" \in DOMAIN doc THEN doc.metadata ELSE EmptyDict

C8_Claimed ==
    /\ UniqueIds(collection)
    /\ (last.op = "add_healthcare_knowledge" /\ last.result.status = "success") =>
           \A i \in DOMAIN last.args.documents :
               "id" \notin DOMAIN last.args.documents[i] =>
                   Stored(collection, last.args.documents[i])

(***************************************************************************)
(* C9: no search call failing, a process_query call that repeats the       *)
(* arguments of the call before it and reads the same state of the store   *)
(* returns the same context_documents and context_used, whatever the       *)
(* completion service does in either call.                                 *)
(***************************************************************************)
C9_Deterministic ==
    [][(/\ last.op = "process_query"
        /\ last'.op = "process_query"
        /\ last'.args = last.args
        /\ last'.view = last.view
        /\ ~StoreCallRaised(last)
        /\ ~StoreCallRaised(last')) =>
           /\ last'.result.context_documents = last.result.context_documents
           /\ last'.result.context_used = last.result.context_used]_vars

\* a query with retrieved context whose completion failed: repeating it with
\* a completion that succeeds is a step the property constrains
C9_Witness ==
    /\ last.op = "process_query"
    /\ CompletionFailed(last)
    /\ last.args.include_context
    /\ Len(last.result.context_documents) = 2
    /\ ~Truthy(last.args.user_context)

(***************************************************************************)
(* C10 as claimed: for every category c passed to search, the empty string *)
(* included, every returned item has metadata category exactly c.          *)
(***************************************************************************)
SearchResults(l) ==
    IF l.op = "search_by_category" THEN l.result.results ELSE Retrieved(l)

FilterSound(l, cats) ==
    (/\ l.op \in {"search_by_category", "process_query", "get_medication_info"}
     /\ l.result.status = "success"
     /\ SearchCalls(l) # <<>>
     /\ SearchCalls(l)[1].category \in cats) =>
        \A i \in DOMAIN SearchResults(l) :
            HasCategory(SearchResults(l)[i], SearchCalls(l)[1].category)

C10_Claimed == FilterSound(last, Categories \ {None})

(***************************************************************************)
(* C10 amended: for every non-empty category c passed to search, every     *)
(* returned item has metadata category exactly c.                          *)
(***************************************************************************)
C10_Amended == FilterSound(last, {c \in Categories : Truthy(c)})

\* a filtered search over a collection that also holds a document of
\* another category returns only the matching one
C10_Witness ==
    /\ last.op = "search_by_category"
    /\ last.args.category = "medications"
    /\ last.result.count = 1
    /\ \E i \in DOMAIN collection : ~HasCategory(collection[i], "medications")

\* C11: delete_document returns true when a document with the id existed and
\* was removed, and returns false, without raising, when the collection
\* holds no document with that id.
C11_Claimed ==
    [][last'.op = "delete_document" =>
         /\ (/\ last'.args.doc_id \in StoredIds(collection)
             /\ last'.args.doc_id \notin StoredIds(collection')) => last'.result = TRUE
         /\ last'.args.doc_id \notin StoredIds(collection) =>
                (last'.result = FALSE /\ ~last'.raised)]_vars

\* C12: once clear_knowledge has returned status "success", whatever the
\* collection held before, the collection is empty, and a get_healthcare_stats
\* that follows immediately and succeeds returns total_documents 0 and an
\* empty category_counts.
C12_ClearEmpties ==
    [][/\ (last'.op = "clear_knowledge" /\ last'.result.status = "success") =>
              collection' = <<>>
       /\ (/\ last.op = "clear_knowledge" /\ last.result.status = "success"
           /\ last'.op = "get_healthcare_stats" /\ last'.result.status = "success") =>
              /\ last'.result.total_documents = 0
              /\ last'.result.category_counts = EmptyDict
              /\ last'.result.categories = {}]_vars

\* a successful clear_knowledge has run and the collection is empty
C12_Witness ==
    /\ last.op = "clear_knowledge"
    /\ last.result.status = "success"
    /\ last.calls # <<>>
    /\ collection = <<>>

\* the sum of the values f takes on the keys in S
RECURSIVE SumOver(_, _)
SumOver(f, S) ==
    IF S = {} THEN 0
    ELSE LET k == CHOOSE x \in S : TRUE IN f[k] + SumOver(f, S \ {k})

\* the category a stored entry counts under
CountedUnder(entry) ==
    IF entry.metadata # EmptyDict /\ "category" \in DOMAIN entry.metadata
    THEN entry.metadata.category
    ELSE "uncategorized"

\* C13: a successful get_healthcare_stats returns total_documents equal to the
\* number of documents stored in the state of the store it listed and to the
\* sum of the category_counts values, and counts every document under its
\* metadata category, a document with no category key or no metadata under
\* "uncategorized".
C13_StatsCount ==
    (last.op = "get_healthcare_stats" /\ last.result.status = "success") =>
        LET counts == last.result.category_counts
            listed == ViewOf(last)
        IN  /\ last.result.total_documents = Len(listed)
            /\ last.result.total_documents = SumOver(counts, DOMAIN counts)
            /\ \A i \in 1..Len(listed) : CountedUnder(listed[i]) \in DOMAIN counts
            /\ \A c \in DOMAIN counts :
                   counts[c] = Cardinality({i \in 1..Len(listed) :
                                              CountedUnder(listed[i]) = c})

\* statistics over a store holding a document with a category and one without
C13_Witness ==
    /\ last.op = "get_healthcare_stats"
    /\ last.result.status = "success"
    /\ last.result.total_documents = 2
    /\ DOMAIN last.result.category_counts = {"medications", "uncategorized"}

\* what the search call an operation made returns on the collection it read
RetrievalOf(l) ==
    IF SearchCalls(l) = <<>> THEN <<>>
    ELSE LET c == SearchCalls(l)[1]
         IN  search(ViewOf(l), c.query, c.n_results, c.category, FALSE).val

\* the context an operation assembles: the ad-hoc item, if the caller gave a
\* non-empty user_context, then the retrieved items
Assembled(l) ==
    (IF "user_context" \in DOMAIN l.args /\ Truthy(l.args.user_context)
     THEN <<[text |-> l.args.user_context, metadata |-> [source |-> "user_context"]]>>
     ELSE <<>>) \o RetrievalOf(l)

\* C14: when retrieval did not fail and the completion call then fails, the
\* result of process_query, assess_symptoms, get_medication_info and
\* chat_conversation returns the assembled context items in context_documents
\* and their number in context_used; so context_used is 0 after a failed
\* completion only when no item was assembled.
C14_ContextKeptOnFailure ==
    (last.op \in ContextOps /\ CompletionFailed(last) /\ ~StoreCallRaised(last)) =>
        /\ last.result.context_documents = Assembled(last)
        /\ last.result.context_used = Len(Assembled(last))
        /\ (last.result.context_used = 0 <=> Assembled(last) = <<>>)

\* a medication lookup that retrieved a document and whose completion failed
C14_Witness ==
    /\ last.op = "get_medication_info"
    /\ CompletionFailed(last)
    /\ SearchCalls(last) # <<>>
    /\ last.result.context_used >= 1

\* the user-role messages of a history, in order
UserMessages(messages) ==
    SelectSeq(messages, LAMBDA m : "role" \in DOMAIN m /\ m.role = "user")

\* the positions at which the backward scan for the retrieval query can end:
\* a user-role message, or a message without a role
ScanEnds(messages) ==
    {i \in DOMAIN messages : "role" \notin DOMAIN messages[i] \/ messages[i].role = "user"}

\* the scan ends on a user-role message whose content is neither missing,
\* null nor empty
HasQuery(messages) ==
    /\ ScanEnds(messages) # {}
    /\ LET m == messages[CHOOSE i \in ScanEnds(messages) : \A j \in ScanEnds(messages) : j <= i]
       IN  "role" \in DOMAIN m /\ "content" \in DOMAIN m /\ Truthy(m.content)

\* the content of the last user-role message
QueryOf(messages) == UserMessages(messages)[Len(UserMessages(messages))].content

\* the result carries no context but the ad-hoc item, if one was supplied
OnlyAdHoc(l) ==
    l.result.context_documents =
        IF Truthy(l.args.user_context)
        THEN <<[text |-> l.args.user_context, metadata |-> [source |-> "user_context"]]>>
        ELSE <<>>

\* C15 as claimed: chat_conversation searches with the content of the last
\* user-role message as the query; when the history has no user-role message
\* it makes no search call and returns a result, without an exception, whose
\* context_documents hold only the ad-hoc item if one was supplied.  Read
\* over the histories whose messages all carry role and content.
C15_Claimed ==
    (last.op = "chat_conversation" /\ Sendable(last.args.messages)) =>
        LET users == UserMessages(last.args.messages)
        IN  IF users = <<>>
            THEN SearchCalls(last) = <<>> /\ ~last.raised /\ OnlyAdHoc(last)
            ELSE /\ Len(SearchCalls(last)) = 1
                 /\ SearchCalls(last)[1].query = users[Len(users)].content

\* C15 amended: chat_conversation searches with the content of the last
\* user-role message as the query when that content is neither empty nor
\* null (and no message behind it lacks a role); otherwise it makes no search
\* call.  It never raises: when every message carries its role and content
\* and no search is made, context_documents hold only the ad-hoc item if one
\* was supplied; when a message lacks its role or content the result is an
\* error result with no context documents and no completion call is made.
C15_Amended ==
    last.op = "chat_conversation" =>
        LET messages == last.args.messages
        IN  /\ ~last.raised
            /\ IF HasQuery(messages)
               THEN /\ Len(SearchCalls(last)) = 1
                    /\ SearchCalls(last)[1].query = QueryOf(messages)
               ELSE SearchCalls(last) = <<>>
            /\ (Sendable(messages) /\ ~HasQuery(messages)) => OnlyAdHoc(last)
            /\ ~Sendable(messages) =>
                  /\ last.result.status = "error"
                  /\ last.result.context_documents = <<>>
                  /\ last.result.context_used = 0
                  /\ \A i \in DOMAIN last.calls : last.calls[i].fn # "complete"

\* a conversation with two different user messages has searched with the
\* later one and retrieved a document
C15_Witness ==
    /\ last.op = "chat_conversation"
    /\ Len(UserMessages(last.args.messages)) = 2
    /\ SearchCalls(last) # <<>>
    /\ SearchCalls(last)[1].query = "aspirin"
    /\ Retrieved(last) # <<>>

\* the completion calls an operation made
CompleteCalls(l) == SelectSeq(l.calls, LAMBDA c : c.fn = "complete")

\* the role and content of the messages whose role is "user" or "assistant",
\* in their order
ChatPairs(messages) ==
    LET kept == SelectSeq(messages, LAMBDA m : m.role \in {"user", "assistant"})
    IN  [i \in 1..Len(kept) |-> [role |-> kept[i].role, content |-> kept[i].content]]

\* C16: the message list chat_conversation sends to the completion service is
\* one system message followed by the role and content of the messages of
\* the history whose role is "user" or "assistant", unchanged and in their
\* order; a message with another role is left out without an error, and
\* unless retrieval fails exactly one such list is sent.  A history with a
\* message that lacks its role, or its content under one of the two roles,
\* is answered with an error result and nothing is sent.
C16_MessagesSent ==
    last.op = "chat_conversation" =>
        /\ ~last.raised
        /\ IF Sendable(last.args.messages)
           THEN /\ ~StoreCallRaised(last) =>
                      (Len(CompleteCalls(last)) = 1 /\ last.result.status = "success")
                /\ \A i \in DOMAIN CompleteCalls(last) :
                      LET sent == CompleteCalls(last)[i].messages
                      IN  /\ sent # <<>>
                          /\ sent[1].role = "system"
                          /\ Tail(sent) = ChatPairs(last.args.messages)
           ELSE /\ CompleteCalls(last) = <<>>
                /\ last.result.status = "error"

\* a history holding a system-role message between user and assistant
\* messages, one of them with a key beyond role and content, was sent: the
\* system message and the role and content of the three others
C16_Witness ==
    /\ last.op = "chat_conversation"
    /\ Len(last.args.messages) = 4
    /\ CompleteCalls(last) # <<>>
    /\ Len(CompleteCalls(last)[1].messages) = 4
    /\ CompleteCalls(last)[1].messages[3] = [role |-> "user", content |-> "aspirin"]
    /\ DOMAIN last.args.messages[3] # {"role", "content"}
    /\ last.result.status = "success"

\* C17: get_medication_info makes its search with the category filter
\* "medications" and the medication name as the query, and every item of its
\* context_documents has metadata category "medications"; assess_symptoms
\* makes its search with no category filter and the symptoms joined by
\* single spaces as the query.
C17_SearchFilters ==
    /\ last.op = "get_medication_info" =>
          /\ Len(SearchCalls(last)) = 1
          /\ SearchCalls(last)[1].category = "medications"
          /\ SearchCalls(last)[1].query = last.args.medication_name
          /\ \A i \in DOMAIN last.result.context_documents :
                HasCategory(last.result.context_documents[i], "medications")
    /\ last.op = "assess_symptoms" =>
          /\ Len(SearchCalls(last)) = 1
          /\ SearchCalls(last)[1].category = None
          /\ SearchCalls(last)[1].query = Join(last.args.symptoms, " ")
          /\ last.args.symptoms = <<"fever", "aspirin">> =>
                SearchCalls(last)[1].query = "fever aspirin"

\* a medication lookup over a store that also holds a document of another
\* category, nearer to the query, returned the medications document
C17_Witness ==
    /\ last.op = "get_medication_info"
    /\ last.args.medication_name = "fever"
    /\ \E i \in 1..Len(ViewOf(last)) : ~HasCategory(ViewOf(last)[i], "medications")
    /\ last.result.context_used = 1

\* C18 as claimed: a successful add_healthcare_knowledge returns
\* documents_added equal to the number of documents the call added to the
\* collection, the growth of the stored document count; for an empty list it
\* changes nothing and returns status "success" with documents_added 0.
C18_Claimed ==
    [][last'.op = "add_healthcare_knowledge" =>
         /\ last'.result.status = "success" =>
                last'.result.documents_added = Len(collection') - Len(collection)
         /\ last'.args.documents = <<>> =>
                /\ last'.result.status = "success"
                /\ last'.result.documents_added = 0
                /\ collection' = collection]_vars

\* C19 as claimed: handling a POST /query request is one process_query call
\* on the fields of the body, whose result is the response; no other agent
\* operation is performed and the collection is left unchanged, also when
\* the body carries a user_context.
C19_Claimed ==
    [][last'.op = "POST /query" =>
         /\ last'.ops = <<"process_query">>
         /\ \A i \in DOMAIN last'.calls : last'.calls[i].fn \in {"search", "complete"}
         /\ collection' = collection]_vars

\* C20: an execution of process_query, assess_symptoms, get_medication_info
\* or chat_conversation makes at most one search call, then at most one
\* completion call, and no other external call; a failed call is not made
\* again, and no completion call follows a search call that raised.
C20_CallSequence ==
    last.op \in ContextOps =>
        /\ Len(SearchCalls(last)) <= 1
        /\ Len(CompleteCalls(last)) <= 1
        /\ Len(last.calls) = Len(SearchCalls(last)) + Len(CompleteCalls(last))
        /\ \A i, j \in DOMAIN last.calls :
              (last.calls[i].fn = "search" /\ last.calls[j].fn = "complete") => i < j
        /\ (\E i \in DOMAIN last.calls : last.calls[i].fn = "search" /\ ~last.calls[i].ok)
              => CompleteCalls(last) = <<>>

\* an assessment made a search call and then a completion call that failed
C20_Witness ==
    /\ last.op = "assess_symptoms"
    /\ Len(last.calls) = 2
    /\ last.calls[1].fn = "search" /\ last.calls[1].ok
    /\ last.calls[2].fn = "complete" /\ ~last.calls[2].ok

\* how many times block occurs in text
Occurrences(text, block) ==
    Cardinality({i \in 1..(Len(text) - Len(block) + 1) :
                   SubSeq(text, i, i + Len(block) - 1) = block})

\* C21 as claimed: every text that process_query, assess_symptoms,
\* get_medication_info or chat_conversation returns for a completion that
\* succeeded carries the disclaimer block exactly once, never twice.
C21_Claimed ==
    (last.op \in ContextOps /\ CompletionSucceeded(last)) =>
        Occurrences(TextOf(last), DisclaimerBlock) = 1

\* the operation searched and the collection it read holds no document its
\* search could return: it is empty, or none of its documents has the
\* category asked
NothingToRetrieve(l) ==
    /\ SearchCalls(l) # <<>>
    /\ \/ ViewOf(l) = <<>>
       \/ /\ Truthy(SearchCalls(l)[1].category)
          /\ \A i \in 1..Len(ViewOf(l)) :
                ~HasCategory(ViewOf(l)[i], SearchCalls(l)[1].category)

\* C22: when the collection is empty or holds no matching document, the
\* search returns an empty list and is no failure: process_query,
\* assess_symptoms, get_medication_info and chat_conversation, given no
\* ad-hoc context and no failing store call, return status "success" with
\* context_used 0 and empty context_documents when the completion succeeds;
\* and the completion is made and succeeds unless the completion service
\* fails or a message of the conversation lacks its role or content.
C22_EmptyRetrieval ==
    (/\ last.op \in ContextOps
     /\ NothingToRetrieve(last)
     /\ ~StoreCallRaised(last)
     /\ ("user_context" \in DOMAIN last.args => ~Truthy(last.args.user_context))) =>
        /\ CompletionSucceeded(last) =>
              /\ ~last.raised
              /\ last.result.status = "success"
              /\ last.result.context_used = 0
              /\ last.result.context_documents = <<>>
        /\ (/\ ~CompletionFailed(last)
            /\ last.op = "chat_conversation" => Sendable(last.args.messages)) =>
              CompletionSucceeded(last)

\* a medication lookup over a store that holds documents, none of them a
\* medication, succeeded without context
C22_Witness ==
    /\ last.op = "get_medication_info"
    /\ ViewOf(last) # <<>>
    /\ NothingToRetrieve(last)
    /\ last.result.status = "success"
    /\ last.result.context_used = 0

\* C23 as claimed: assess_symptoms called with an empty symptom list returns
\* a result with status "error" and an error string, never a success result.
C23_Claimed ==
    (last.op = "assess_symptoms" /\ last.args.symptoms = <<>>) =>
        /\ last.result.status = "error"
        /\ "error" \in DOMAIN last.result

\* item is the one stored document, as a search result
IsTheStoredDocument(item) ==
    /\ item.text = ViewOf(last)[1].document
    /\ item.metadata = ViewOf(last)[1].metadata
    /\ item.distance >= 0

\* C24: over a collection that holds a single document, of metadata category
\* c, a successful search_by_category for any query with category c and a
\* limit of at least 1 returns that document, its text and category intact
\* and its distance not negative, with count 1; so does an unfiltered search,
\* through search_by_category with no category or through process_query.
C24_SingleDocument ==
    (/\ last.op \in {"search_by_category", "process_query"}
     /\ Len(ViewOf(last)) = 1
     /\ ViewOf(last)[1].metadata # EmptyDict
     /\ "category" \in DOMAIN ViewOf(last)[1].metadata) =>
        LET c == ViewOf(last)[1].metadata.category
        IN  /\ (/\ last.op = "search_by_category"
                /\ last.result.status = "success"
                /\ last.args.n_results >= 1
                /\ last.args.category \in {c, ""}) =>
                   /\ last.result.count = 1
                   /\ Len(last.result.results) = 1
                   /\ IsTheStoredDocument(last.result.results[1])
                   /\ HasCategory(last.result.results[1], c)
            /\ (/\ last.op = "process_query"
                /\ last.args.include_context
                /\ last.args.search_k >= 1
                /\ last.args.category \in {None, c}
                /\ ~StoreCallRaised(last)) =>
                   /\ Len(Retrieved(last)) = 1
                   /\ IsTheStoredDocument(Retrieved(last)[1])

\* a search by category "medications" over a store holding one medications
\* document, for a query that is not its text, returned it
C24_Witness ==
    /\ Len(collection) = 1
    /\ last.op = "search_by_category"
    /\ last.args.category = "medications"
    /\ last.args.query = "fever"
    /\ last.result.count = 1
    /\ last.result.results[1].text = "aspirin"

\* C25: in every successful process_query and chat_conversation result,
\* context_documents without the leading ad-hoc item, if there is one, is the
\* list the search returned: the same items in the same order, none removed
\* as a duplicate, also when a retrieved document has the ad-hoc text.
C25_PassThrough ==
    (/\ last.op \in {"process_query", "chat_conversation"}
     /\ last.result.status = "success") =>
        /\ Retrieved(last) = RetrievalOf(last)
        /\ Len(last.result.context_documents) =
               Len(RetrievalOf(last)) + (IF Truthy(last.args.user_context) THEN 1 ELSE 0)

\* the ad-hoc text is also the text of a retrieved document and both are kept
C25_Witness ==
    /\ last.op = "process_query"
    /\ last.result.status = "success"
    /\ last.args.user_context = "fever"
    /\ Len(last.result.context_documents) >= 2
    /\ last.result.context_documents[2].text = "fever"

\* the engine rejected an insert batch during the operation
InsertRejected(l) ==
    \E i \in DOMAIN l.calls : l.calls[i].fn = "add" /\ ~l.calls[i].ok

\* C26 as claimed: whenever the engine rejects an insert batch, the entry
\* point that triggered the insert reports it: add_healthcare_knowledge
\* returns status "error" with documents_added 0, and the POST /query
\* handler, which inserts before it queries, does not answer with a success
\* result that leaves the failed insert out.
C26_Claimed ==
    (last.op # "pending" /\ InsertRejected(last)) =>
        /\ last.result.status = "error"
        /\ "error" \in DOMAIN last.result
        /\ last.op = "add_healthcare_knowledge" => last.result.documents_added = 0

\* C27 as claimed: a successful get_healthcare_stats result, also of a call
\* that ran while other threads added documents or cleared the collection,
\* describes one state of the store: no stored document having the literal
\* category "uncategorized", the values in categories are the keys of
\* category_counts other than "uncategorized".
C27_Claimed ==
    (/\ last.op = "get_healthcare_stats"
     /\ last.result.status = "success") =>
        last.result.categories = DOMAIN last.result.category_counts \ {"uncategorized"}

\* the agent operations that only read the store
ReadOps == ContextOps \cup {"get_healthcare_stats", "search_by_category",
                            "get_documents_by_category"}

\* the collections one add_healthcare_knowledge or clear_knowledge call can
\* make of coll
WritesOn(coll) ==
    {clear_knowledge(coll, fails).coll : fails \in BOOLEAN}
    \cup {add_healthcare_knowledge(coll, documents, fails, onExisting).coll :
              documents \in Batches, fails \in BOOLEAN, onExisting \in {"raise", "skip"}}

\* C28: process_query, assess_symptoms, get_medication_info,
\* chat_conversation, get_healthcare_stats, search_by_category and
\* get_documents_by_category leave the collection as it was, in their store
\* read and in their return, whether they succeed or fail; a step that
\* changes the collection is a step of add_healthcare_knowledge or
\* clear_knowledge, of the request followed or of another one.
C28_Frame ==
    [][/\ last'.op \in ReadOps => collection' = collection
       /\ (last'.op = "pending" /\ last' # last) => collection' = collection
       /\ collection' # collection =>
              \/ last'.op \in {"add_healthcare_knowledge", "clear_knowledge"}
              \/ /\ last.op = "pending"
                 /\ last' = last
                 /\ collection' \in WritesOn(collection)]_vars

\* a reading operation whose store call failed has run on a store that
\* holds documents
C28_Witness ==
    /\ last.op \in ReadOps
    /\ StoreCallRaised(last)
    /\ Len(collection) = 2

\* C29: with a retrieval limit k > 0 an operation retrieves at most k items:
\* context_used is at most k for assess_symptoms and get_medication_info, at
\* most k + 1 for process_query and chat_conversation, whose extra item is
\* the ad-hoc one, and never more than the number of documents stored in the
\* state of the store the operation searched, plus one.
C29_Bounded ==
    (last.op \in ContextOps /\ last.args.search_k > 0) =>
        /\ Len(Retrieved(last)) <= last.args.search_k
        /\ last.op \in {"assess_symptoms", "get_medication_info"} =>
              last.result.context_used <= last.args.search_k
        /\ last.op \in {"process_query", "chat_conversation"} =>
              last.result.context_used <= last.args.search_k + 1
        /\ last.result.context_used <= Len(ViewOf(last)) + 1

\* an assessment with limit 1 over a store of two documents used one
C29_Witness ==
    /\ last.op = "assess_symptoms"
    /\ last.args.search_k = 1
    /\ Len(ViewOf(last)) = 2
    /\ last.result.context_used = 1

\* the fields a template refers to
FieldsOf(template) ==
    {template[i].s : i \in {j \in DOMAIN template : template[j].field}}

\* the keys of the mapping the template is rendered with: those of
\* variables, and context when context documents were passed
KeysGiven(args) ==
    DOMAIN args.variables
        \cup (IF args.context_documents # <<>> THEN {"context"} ELSE {})

\* C30: generate_with_template given a template with a field that the
\* mapping it renders with lacks raises while rendering and sends no request
\* to the completion service; with every field present it sends one request,
\* whose prompt is the rendered template.  generate_health_assessment and
\* generate_medication_info render their templates with all fields supplied,
\* for empty and non-empty context: they never raise and send one request.
C30_RenderFailsFirst ==
    /\ last.op = "generate_with_template" =>
          IF FieldsOf(last.args.template) \subseteq KeysGiven(last.args)
          THEN /\ ~last.raised
               /\ Len(last.calls) = 1
               /\ FieldsOf(last.args.template) = {} =>
                     last.calls[1].messages[2].content =
                        Join([i \in DOMAIN last.args.template |->
                                 last.args.template[i].s], "")
          ELSE last.raised /\ last.calls = <<>>
    /\ last.op \in {"generate_health_assessment", "generate_medication_info"} =>
          /\ ~last.raised
          /\ Len(last.calls) = 1
          /\ last.calls[1].messages[2].role = "user"

\* a template naming symptoms and context was rendered with a mapping that
\* has only symptoms: the call raised before any request
C30_Witness ==
    /\ last.op = "generate_with_template"
    /\ FieldsOf(last.args.template) = {"symptoms", "context"}
    /\ DOMAIN last.args.variables = {"symptoms"}
    /\ last.args.context_documents = <<>>
    /\ last.raised
    /\ last.calls = <<>>

====
